---- MODULE Spec2Model ----
(***************************************************************************)
(* A model of radix-ts: a path-compressed radix tree whose nodes are       *)
(* records of an asynchronous key-value store (class Radix).               *)
(*                                                                         *)
(* Strings are sequences of UTF-16 code units.  A node record (RNode) is a *)
(* sequence of edges [l, leaf, s]: l is the label, and the target is       *)
(* either the one-element array [s] holding the encoded value (leaf) or    *)
(* the bare string s naming another node record (branch).                  *)
(*                                                                         *)
(* Every public operation is a small-step machine: one step performs the   *)
(* store access the call is awaiting and then runs the call's synchronous  *)
(* code up to its next store access (or its return).  The sequential       *)
(* specifications run a machine to completion in one action; the           *)
(* concurrent specification interleaves the steps of several calls.        *)
(***************************************************************************)
EXTENDS Integers, Sequences, FiniteSets, TLC

\* ------------------------------------------------------------------ bounds
\* longest key handed to an operation
MaxKeyLen == 3
\* number of operations of a sequential run
MaxOps == 4
\* number of distinct values handed to set
NumVals == 2
\* longest bound string of a query
MaxBoundLen == 2
\* number of calls of a concurrent run
NumCalls == 3
MaxEscLen == 2

\* the code units of 'a' and 'b'
Chars == {97, 98}
Values == 1..NumVals

Strs(n) == UNION {[1..k -> Chars] : k \in 0..n}
Keys == Strs(MaxKeyLen)

\* ----------------------------------------------------------------- strings
Min(S) == CHOOSE x \in S : \A y \in S : x <= y

\* s.slice(n, s.length)
Drop(s, n) == SubSeq(s, n + 1, Len(s))

\* s.slice(0, n)
Take(s, n) == SubSeq(s, 1, IF n < Len(s) THEN n ELSE Len(s))

\* key.slice(0, n.length) === n
IsPrefix(n, key) == Len(n) <= Len(key) /\ Take(key, Len(n)) = n

\* n[0] === key[0] were the first code unit of an empty string never equal
\* to anything
FirstCharEqStrict(n, key) == n # <<>> /\ key # <<>> /\ n[1] = key[1]

\* n[0] === key[0]; the first code unit of an empty string is undefined, and
\* undefined === undefined
FirstCharEq(n, key) ==
  IF n = <<>> \/ key = <<>> THEN n = <<>> /\ key = <<>> ELSE n[1] = key[1]

\* a < b on strings: by code units, a proper prefix first
StrLt(a, b) ==
  \E i \in 1..Len(b) :
    /\ i - 1 <= Len(a)
    /\ \A j \in 1..(i - 1) : a[j] = b[j]
    /\ (i > Len(a) \/ a[i] < b[i])

StrLe(a, b) == a = b \/ StrLt(a, b)

\* the inner while loop of set were it to stop one code unit before the end
\* of the shorter string
LcpLenShort(k, key) ==
  LET m == IF Len(k) < Len(key) THEN Len(k) ELSE Len(key)
      d == { i \in 1..m : k[i] # key[i] }
  IN IF d # {} THEN Min(d) - 1 ELSE IF m > 0 THEN m - 1 ELSE 0

\* the number of leading code units k and key share: the inner while loop of
\* set moves that many code units from kLeft to kNew and drops them from key
LcpLen(k, key) ==
  LET m == IF Len(k) < Len(key) THEN Len(k) ELSE Len(key)
      d == { i \in 1..m : k[i] # key[i] }
  IN IF d = {} THEN m ELSE Min(d) - 1

\* ------------------------------------------------------------ conversions
Digits36 ==
  << "0", "1", "2", "3", "4", "5", "6", "7", "8", "9", "a", "b", "c", "d",
     "e", "f", "g", "h", "i", "j", "k", "l", "m", "n", "o", "p", "q", "r",
     "s", "t", "u", "v", "w", "x", "y", "z" >>

RECURSIVE ToString36(_)
\* Number.prototype.toString(36) of a non-negative integer
ToString36(n) ==
  IF n < 36 THEN Digits36[n + 1]
  ELSE ToString36(n \div 36) \o Digits36[(n % 36) + 1]

\* jsonEncode of a small non-negative integer: its decimal digit
jsonEncode(v) == Digits36[v + 1]

\* JSON.parse of the text of a decimal digit
JsonParse(s) == CHOOSE n \in 0..9 : Digits36[n + 1] = s

\* ------------------------------------------------------------------- store
NODE_ROOT == "_"
COUNTER == "#"

Leaf(l, s) == [l |-> l, leaf |-> TRUE, s |-> s]
Branch(l, s) == [l |-> l, leaf |-> FALSE, s |-> s]

\* nodeSort were it to leave the array as it is
nodeSortNone(node) == node

\* Array.prototype.sort with the comparator +(a[0] > b[0]) - 0.5: ascending
\* by label
nodeSort(node) == SortSeq(node, LAMBDA a, b : StrLt(a.l, b.l))

\* node.splice(i), i counted from 1: everything from i on is removed
RemoveFrom(node, i) == SubSeq(node, 1, i - 1)

\* node.splice(i, 1), i counted from 1
RemoveAt(node, i) == SubSeq(node, 1, i - 1) \o SubSeq(node, i + 1, Len(node))

\* node.splice(i, 1, e), i counted from 1: past the end nothing is removed
\* and e is appended
SpliceAt(node, i, e) ==
  IF i <= Len(node) THEN [node EXCEPT ![i] = e] ELSE Append(node, e)

\* Set.prototype.add: insertion order kept, no duplicate
SetAdd(pool, id) ==
  IF \E j \in 1..Len(pool) : pool[j] = id THEN pool ELSE Append(pool, id)

\* The world a call acts on: store (the IStore's records), pool
\* (m_recycleIds), idn (m_id.next, shared by the instances of one store),
\* alias (whether store.get hands out the very object store.set was given,
\* as a Map-backed store does, or a copy).
World(store, pool, idn, alias) ==
  [store |-> store, pool |-> pool, idn |-> idn, alias |-> alias]

StoreHas(w, k) == k \in DOMAIN w.store

StoreSet(w, k, v) ==
  [w EXCEPT !.store = [x \in DOMAIN w.store \cup {k} |->
                         IF x = k THEN v ELSE w.store[x]]]

StoreDel(w, k) ==
  [w EXCEPT !.store = [x \in DOMAIN w.store \ {k} |-> w.store[x]]]

\* a mutation in place of the array read from path k: visible in the store
\* at once when the store hands out its own objects
InPlace(w, live, k, node) ==
  IF w.alias /\ live /\ StoreHas(w, k) THEN StoreSet(w, k, node) ELSE w

\* ------------------------------------------------------------------- calls
\* a Query with no field set; each optional field is the set of its values
\* (empty when undefined)
EmptyQuery ==
  [count |-> {}, sort |-> {}, gt |-> {}, gte |-> {}, lt |-> {}, lte |-> {},
   prefix |-> {}, prefixNot |-> {}, prefixSome |-> {}]

\* The local state of one call.  at: the store access the call is awaiting
\* ("done" once it has returned); key: what is left of the key; val: the
\* encoded value; path, pleaf: the key of the awaited store access and
\* whether it is a leaf's array handed to store.get as a key; node, live:
\* the node in hand and whether it is the array read from path; i, n, e,
\* kNew, kLeft, newid: locals of set and del; prev: prevNodes; retb, retv:
\* the boolean result and the value result (empty: undefined); stk, count,
\* sort, q, acc, item, out: the frames of _loop, query.count, query.sort,
\* the Query, keyAcc, the pair being yielded and the pairs yielded so far.
NewCall(op, key, val, q) ==
  [op |-> op, at |-> "root", key |-> key, val |-> val,
   path |-> NODE_ROOT, pleaf |-> FALSE, node |-> <<>>, live |-> FALSE,
   i |-> 0, n |-> <<>>, e |-> Leaf(<<>>, ""), kNew |-> <<>>, kLeft |-> <<>>,
   newid |-> "", prev |-> <<>>, retb |-> FALSE, retv |-> {},
   stk |-> <<>>, count |-> 0, sort |-> 1, q |-> q, acc |-> <<>>,
   item |-> <<>>, out |-> <<>>]

Done(p) == [p EXCEPT !.at = "done"]
DoneB(p, b) == [p EXCEPT !.at = "done", !.retb = b]
DoneV(p, v) == [p EXCEPT !.at = "done", !.retv = v, !.retb = v # {}]

PW(p, w) == [p |-> p, w |-> w]

\* store.get<RNode>(path) ?? []; a leaf's array handed over as the key names
\* no record
ReadNode(p, w) ==
  IF ~p.pleaf /\ StoreHas(w, p.path) THEN w.store[p.path] ELSE <<>>

\* the first edge, in array order, whose label starts like key and is a
\* prefix of key (the for loops of has, get and del); 0 when there is none
MatchEdge(node, key) ==
  LET c == { i \in 1..Len(node) :
               FirstCharEq(node[i].l, key) /\ IsPrefix(node[i].l, key) }
  IN IF c = {} THEN 0 ELSE Min(c)

\* ----------------------------------------------------------- has and get
\* One store read of has/get and the walk over the node read, up to the
\* next read or the return.
GetStep(p, w) ==
  LET node == ReadNode(p, w)
      i == MatchEdge(node, p.key)
      key == Drop(p.key, Len(node[i].l))
  IN IF i = 0 THEN PW(DoneV(p, {}), w)
     ELSE IF key = <<>> /\ node[i].leaf
          THEN PW(DoneV(p, {JsonParse(node[i].s)}), w)
          ELSE PW([p EXCEPT !.at = "desc", !.key = key, !.path = node[i].s,
                            !.pleaf = node[i].leaf], w)

\* ------------------------------------------------------------------- set
\* the first edge, in array order, whose label starts like key (the for
\* loop of set); 0 when there is none
FirstEdge(node, key) ==
  LET c == { i \in 1..Len(node) : FirstCharEq(node[i].l, key) }
  IN IF c = {} THEN 0 ELSE Min(c)

\* set, from the new node id on: the edge i of the node in hand is replaced
\* by [kNew, id] and the node sorted, in place; the write of it is awaited
SetSplit(p, w, id) ==
  LET node == nodeSort(Append(RemoveAt(p.node, p.i), Branch(p.kNew, id)))
  IN PW([p EXCEPT !.at = "wparent", !.node = node, !.newid = id],
        InPlace(w, p.live, p.path, node))

\* nextId were it to advance the cache before it names the id
NextOrdinalAfter(p, w) ==
  PW([p EXCEPT !.at = "idset", !.newid = ToString36(w.idn + 1)],
     [w EXCEPT !.idn = w.idn + 1])

\* nextId, from the counter on: the id is the cached ordinal in base 36 and
\* the cache is advanced before the write of the counter is awaited
NextOrdinal(p, w) ==
  PW([p EXCEPT !.at = "idset", !.newid = ToString36(w.idn)],
     [w EXCEPT !.idn = w.idn + 1])

\* nextId as set calls it: a recycled id first (the oldest of the pool),
\* else the counter, read from the store when the cache is not hydrated
NextId(p, w) ==
  IF w.pool # <<>>
  THEN SetSplit(p, [w EXCEPT !.pool = Tail(w.pool)], Head(w.pool))
  ELSE IF w.idn < 0 THEN PW([p EXCEPT !.at = "idget"], w)
       ELSE NextOrdinal(p, w)

\* the body of set's while loop over the node in hand
SetScan(p, w) ==
  LET node == p.node
      i == FirstEdge(node, p.key)
      k == node[i].l
      c == LcpLen(k, p.key)
      kNew == Take(k, c)
      kLeft == Drop(k, c)
      key == Drop(p.key, c)
  IN IF i = 0
     THEN LET n2 == nodeSort(Append(node, Leaf(p.key, p.val)))
          IN PW([p EXCEPT !.at = "wappend", !.node = n2],
                InPlace(w, p.live, p.path, n2))
     ELSE IF ((key # <<>> /\ kLeft = <<>>) \/ k = kNew) /\ node[i].leaf
               /\ key = kLeft /\ kLeft = <<>>
     THEN LET n2 == [node EXCEPT ![i] = Leaf(k, p.val)]
          IN PW([p EXCEPT !.at = "wover", !.node = n2, !.key = key],
                InPlace(w, p.live, p.path, n2))
     ELSE IF ((key # <<>> /\ kLeft = <<>>) \/ k = kNew) /\ ~node[i].leaf
     THEN PW([p EXCEPT !.at = "desc", !.key = key, !.path = node[i].s], w)
     ELSE NextId([p EXCEPT !.i = i, !.e = node[i], !.kNew = kNew,
                           !.kLeft = kLeft, !.key = key], w)

\* One store access of set and the code after it.
SetStep(p, w) ==
  CASE p.at \in {"root", "desc"} ->
         SetScan([p EXCEPT !.node = ReadNode(p, w),
                           !.live = StoreHas(w, p.path)], w)
    [] p.at = "idget" ->
         NextOrdinal(p, [w EXCEPT !.idn = IF StoreHas(w, COUNTER)
                                          THEN w.store[COUNTER] ELSE 0])
    [] p.at = "idset" -> SetSplit(p, StoreSet(w, COUNTER, w.idn), p.newid)
    [] p.at = "wparent" ->
         PW([p EXCEPT !.at = "wnew",
                      !.node = nodeSort(<< Leaf(p.key, p.val),
                                           [p.e EXCEPT !.l = p.kLeft] >>)],
            StoreSet(w, p.path, p.node))
    [] p.at = "wnew" -> PW(Done(p), StoreSet(w, p.newid, p.node))
    [] p.at \in {"wover", "wappend"} ->
         PW(Done(p), StoreSet(w, p.path, p.node))

\* ------------------------------------------------------------------- del
\* a frame of prevNodes: [i, n, curNodePath, node]
Frame(i, n, path, node) == [i |-> i, n |-> n, path |-> path, node |-> node]

Front(s) == SubSeq(s, 1, Len(s) - 1)
Last(s) == s[Len(s)]

\* the body of del's while loop over the node in hand, down to the switch
\* on the number of edges left once the leaf's edge is spliced out (in
\* place)
DelScan(p, w) ==
  LET node == p.node
      i == MatchEdge(node, p.key)
      key == Drop(p.key, Len(node[i].l))
      n2 == RemoveAt(node, i)
      w2 == InPlace(w, p.live, p.path, n2)
  IN IF i = 0 THEN PW(DoneB(p, FALSE), w)
     ELSE IF ~node[i].leaf
     THEN PW([p EXCEPT !.at = "desc", !.key = key, !.path = node[i].s,
                       !.i = i, !.n = node[i].l], w)
     ELSE IF Len(n2) = 0
     THEN IF p.prev = <<>>
          THEN PW(DoneB([p EXCEPT !.key = key, !.node = n2], TRUE), w2)
          ELSE PW([p EXCEPT !.at = "c0del", !.key = key, !.node = n2,
                            !.i = Last(p.prev).i,
                            !.path = Last(p.prev).path,
                            !.prev = Front(p.prev)], w2)
     ELSE IF Len(n2) = 1
     THEN PW([p EXCEPT !.at = "c1del", !.key = key, !.node = n2], w2)
     ELSE PW([p EXCEPT !.at = "dset", !.key = key, !.node = n2], w2)

\* case 1 of del, after the node's record is deleted and its id recycled:
\* the frame of the node gives the index and the label of the edge that led
\* to it, the frame below it (the root and an empty array when there is
\* none) the node that takes the merged edge
DelCollapse(p, w) ==
  LET top == Last(p.prev)
      rest == Front(p.prev)
      under == IF rest = <<>> THEN Frame(0, <<>>, NODE_ROOT, <<>>)
               ELSE Last(rest)
      fieldNew == [p.node[1] EXCEPT !.l = top.n \o p.node[1].l]
      n2 == SpliceAt(under.node, top.i, fieldNew)
  IN IF p.prev = <<>> THEN PW(DoneB(p, TRUE), w)
     ELSE PW([p EXCEPT !.at = "c1set", !.node = n2, !.path = under.path,
                       !.live = rest # <<>>,
                       !.prev = IF rest = <<>> THEN rest ELSE Front(rest)],
             InPlace(w, rest # <<>>, under.path, n2))

\* One store access of del and the code after it.
DelStep(p, w) ==
  CASE p.at = "root" ->
         IF ~StoreHas(w, NODE_ROOT) THEN PW(DoneB(p, FALSE), w)
         ELSE DelScan([p EXCEPT !.node = w.store[NODE_ROOT],
                                !.live = TRUE], w)
    [] p.at = "desc" ->
         IF ~StoreHas(w, p.path) THEN PW(DoneB(p, FALSE), w)
         ELSE DelScan([p EXCEPT !.node = w.store[p.path], !.live = TRUE,
                                !.prev = Append(p.prev,
                                  Frame(p.i, p.n, p.path, w.store[p.path]))],
                      w)
    [] p.at = "c0del" ->
         PW([p EXCEPT !.at = "c0get"],
            [StoreDel(w, p.path) EXCEPT !.pool = SetAdd(w.pool, p.path)])
    [] p.at = "c0get" ->
         IF ~StoreHas(w, p.path) THEN PW(DoneB(p, TRUE), w)
         ELSE LET n2 == RemoveAt(w.store[p.path], p.i)
              IN PW([p EXCEPT !.at = "c0set", !.node = n2, !.live = TRUE],
                    InPlace(w, TRUE, p.path, n2))
    [] p.at = "c1del" ->
         DelCollapse(p, [StoreDel(w, p.path) EXCEPT
                           !.pool = SetAdd(w.pool, p.path)])
    [] p.at \in {"c0set", "c1set", "dset"} ->
         PW(DoneB(p, TRUE), StoreSet(w, p.path, p.node))

\* ------------------------------------------------------------------ loop
RECURSIVE EscapeSrc(_)
\* value.replaceAll(/'/g, "\\'"): a backslash before every single quote
EscapeSrc(x) ==
  IF x = <<>> THEN <<>>
  ELSE (IF x[1] = 39 THEN <<92, 39>> ELSE <<x[1]>>) \o EscapeSrc(Tail(x))

\* the code unit a backslash followed by c denotes in a string literal
Unescape(c) ==
  CASE c = 98 -> 8
    [] c = 102 -> 12
    [] c = 110 -> 10
    [] c = 114 -> 13
    [] c = 116 -> 9
    [] c = 118 -> 11
    [] OTHER -> c

RECURSIVE LitEval(_)
\* What the text between the quotes of the generated single-quoted literal
\* denotes when the filter source is evaluated: ok is FALSE when the literal
\* ends before the text does (a bare quote, or a backslash taking the
\* closing quote).
LitEval(src) ==
  IF src = <<>> THEN [ok |-> TRUE, val |-> <<>>]
  ELSE IF src[1] = 39 THEN [ok |-> FALSE, val |-> <<>>]
  ELSE IF src[1] = 92
  THEN IF Len(src) = 1 THEN [ok |-> FALSE, val |-> <<>>]
       ELSE LET r == LitEval(Drop(src, 2))
            IN [ok |-> r.ok, val |-> <<Unescape(src[2])>> \o r.val]
  ELSE LET r == LitEval(Tail(src))
       IN [ok |-> r.ok, val |-> <<src[1]>> \o r.val]

\* the string the literal escape(value, ..) writes into the filter denotes
Lit(x) == LitEval(EscapeSrc(x)).val

\* escape(value) were the literal never cut
LitCutWhole(x, v, t) == LitEval(EscapeSrc(x)).val

\* escape(value): the literal, cut to the length of the path v for a branch
LitCut(x, v, t) == IF t THEN Take(Lit(x), Len(v)) ELSE Lit(x)

\* The function buildQueryFilter builds, applied to the path v and to
\* isBranch t.
Filter(q, v, t) ==
  /\ \A x \in q.gt :
       IF t THEN StrLe(Take(Lit(x), Len(v)), v) ELSE StrLt(Lit(x), v)
  /\ \A x \in q.gte : StrLe(LitCut(x, v, t), v)
  /\ \A x \in q.lt :
       IF t THEN StrLe(v, Take(Lit(x), Len(v))) ELSE StrLt(v, Lit(x))
  /\ \A x \in q.lte : StrLe(v, LitCut(x, v, t))
  /\ \A a \in q.prefixSome :
       \E j \in 1..Len(a) :
         Take(v, Len(LitCut(a[j], v, t))) = LitCut(a[j], v, t)
  /\ \A x \in q.prefix : Take(v, Len(x)) = LitCut(x, v, t)
  /\ \A x \in q.prefixNot : Take(v, Len(x)) # Lit(x)

\* a frame of _loop: the node read, the number of its edges taken so far,
\* and the key accumulated down to it
LoopFrame(node, i, key) == [node |-> node, i |-> i, key |-> key]

\* loop's call of _loop were sort 0 to stand for descending as -1 does
LoopCallZeroDown(q) ==
  LET count == IF q.count = {} THEN -1 ELSE CHOOSE c \in q.count : TRUE
      p == NewCall("loop", <<>>, "", q)
  IN [p EXCEPT !.count = count,
               !.sort = IF q.sort \in {{-1}, {0}} THEN 0 ELSE 1,
               !.at = IF count = 0 THEN "done" ELSE "root"]

\* loop's call of _loop: count is query?.count ?? -1, sort is 0 for
\* query.sort === -1 and 1 otherwise; _loop returns at once when count is 0
LoopCall(q) ==
  LET count == IF q.count = {} THEN -1 ELSE CHOOSE c \in q.count : TRUE
      p == NewCall("loop", <<>>, "", q)
  IN [p EXCEPT !.count = count,
               !.sort = IF q.sort = {-1} THEN 0 ELSE 1,
               !.at = IF count = 0 THEN "done" ELSE "root"]

RECURSIVE LoopAdvance(_)
\* The synchronous code of the generators from the frame on top: the for
\* loop over the edges of its node, up to the next yield, the next store
\* read (the _loop of a branch that passes the filter) or the end.
LoopAdvance(p) ==
  IF p.stk = <<>> THEN Done(p)
  ELSE LET f == Last(p.stk)
           len == Len(f.node)
           e == f.node[p.sort * f.i + (1 - p.sort) * (len - (f.i + 1)) + 1]
           keyAcc == f.key \o e.l
           p2 == [p EXCEPT !.stk[Len(p.stk)].i = f.i + 1]
       IN IF f.i >= len THEN LoopAdvance([p EXCEPT !.stk = Front(p.stk)])
          ELSE IF e.leaf
          THEN IF Filter(p.q, keyAcc, FALSE)
               THEN [p2 EXCEPT !.at = "yield",
                               !.item = <<keyAcc, JsonParse(e.s)>>,
                               !.out = Append(p.out,
                                              <<keyAcc, JsonParse(e.s)>>)]
               ELSE LoopAdvance(p2)
          ELSE IF Filter(p.q, keyAcc, TRUE) /\ p.count # 0
               THEN [p2 EXCEPT !.at = "enter", !.path = e.s, !.acc = keyAcc]
               ELSE LoopAdvance(p2)

\* the store read of a _loop and the code after it
LoopStep(p, w) ==
  PW(LoopAdvance([p EXCEPT !.stk = Append(p.stk,
                     LoopFrame(ReadNode(p, w), 0,
                               IF p.at = "root" THEN <<>> ELSE p.acc))]),
     w)

\* the consumer asks for the next pair: --query.count, and the generator on
\* top returns when that is 0
LoopResume(p) ==
  LoopAdvance([p EXCEPT !.count = p.count - 1,
                        !.stk = IF p.count - 1 = 0 THEN Front(p.stk)
                                ELSE p.stk])

\* ------------------------------------------------------------------ steps
\* One step of a call: the awaited store access (for a loop suspended at a
\* yield, the consumer's next pull) and the code after it.
Step(p, w) ==
  CASE p.op \in {"get", "has"} -> GetStep(p, w)
    [] p.op = "set" -> SetStep(p, w)
    [] p.op = "del" -> DelStep(p, w)
    [] p.op = "loop" ->
         IF p.at = "yield" THEN PW(LoopResume(p), w) ELSE LoopStep(p, w)

RECURSIVE Run(_, _)
\* a call run to its return with no other call in between
Run(p, w) ==
  IF p.at = "done" THEN PW(p, w)
  ELSE LET r == Step(p, w) IN Run(r.p, r.w)

get(w, key) == Run(NewCall("get", key, "", EmptyQuery), w).p.retv
has(w, key) == Run(NewCall("has", key, "", EmptyQuery), w).p.retb
set(w, key, value) ==
  Run(NewCall("set", key, jsonEncode(value), EmptyQuery), w)
del(w, key) == Run(NewCall("del", key, "", EmptyQuery), w)
loop(w, q) == Run(LoopCall(q), w).p.out

\* ------------------------------------------------------------------ state
\* store: the records of the IStore; m_recycleIds, m_id: the fields of the
\* one Radix instance; aliasing: whether the store hands out its own
\* objects; ref: the value a map would hold for each key after the same
\* sets and dels (empty: none); last: the last operation, its arguments and
\* results, and the store, pool and counter cache it started from; nops,
\* ndel: the number of operations and of dels so far; calls: the calls of a
\* concurrent run; mutex: the calls that hold the module's MutexRW, shared
\* (ro) or exclusive (rw); other: the records, the recycle pool and the
\* counter cache of a second Radix instance, on a store of its own.
VARIABLES store, m_recycleIds, m_id, aliasing, ref, last, nops, ndel,
          calls, mutex, other

vars ==
  <<store, m_recycleIds, m_id, aliasing, ref, last, nops, ndel, calls, mutex,
    other>>

W == World(store, m_recycleIds, m_id, aliasing)

Record(op, key, val, q, p) ==
  [op |-> op, key |-> key, val |-> val, q |-> q, retb |-> p.retb,
   retv |-> p.retv, out |-> p.out, newid |-> p.newid, pre |-> W]

Calls == 1..NumCalls

\* a call not made yet.  pc: "idle", "wait" (awaiting the mutex), "run"
\* (holding it) or "end"; p: its local state; started: it has made a store
\* access; failed: a store access of it threw; stopped: its consumer
\* returned the generator; sawFail: a call had failed when it obtained the
\* mutex; arg: the key it was called with; snap: the records of the store at
\* its first access; torn: a set or del was between two of its store
\* accesses then; from: the loop in whose for await body the call was made
\* (0: none); awaited: that body awaits the call before it goes on; inst:
\* the instance the call is made on, 1 (on store) or 2 (the other).
IdleCall ==
  [pc |-> "idle", p |-> NewCall("new", <<>>, "", EmptyQuery),
   started |-> FALSE, failed |-> FALSE, stopped |-> FALSE,
   sawFail |-> FALSE, arg |-> <<>>, snap |-> <<>>, torn |-> FALSE,
   from |-> 0, awaited |-> FALSE, inst |-> 1]

NoCalls ==
  /\ calls = [c \in Calls |-> IdleCall]
  /\ mutex = [ro |-> {}, rw |-> {}]

\* new Radix(new StoreInMemory()) for the other instance
NoOther == other = [store |-> <<>>, pool |-> <<>>, idn |-> -1]

\* new Radix(new StoreInMemory()): an empty store, an empty pool, and the
\* counter cache not hydrated
Init ==
  /\ NoCalls
  /\ NoOther
  /\ store = <<>>
  /\ m_recycleIds = <<>>
  /\ m_id = -1
  /\ aliasing \in BOOLEAN
  /\ ref = [k \in Keys |-> {}]
  /\ last = Record("new", <<>>, 0, EmptyQuery,
                   NewCall("new", <<>>, "", EmptyQuery))
  /\ nops = 0
  /\ ndel = 0

Effect(r) ==
  /\ store' = r.w.store
  /\ m_recycleIds' = r.w.pool
  /\ m_id' = r.w.idn
  /\ nops' = nops + 1
  /\ UNCHANGED <<aliasing, calls, mutex, other>>

\* await radix.set(key, value)
Set(key, value) ==
  /\ nops < MaxOps
  /\ LET r == set(W, key, value)
     IN /\ Effect(r)
        /\ last' = Record("set", key, value, EmptyQuery, r.p)
  /\ ref' = [ref EXCEPT ![key] = {value}]
  /\ UNCHANGED ndel

\* await radix.del(key)
Del(key) ==
  /\ nops < MaxOps
  /\ LET r == del(W, key)
     IN /\ Effect(r)
        /\ last' = Record("del", key, 0, EmptyQuery, r.p)
  /\ ref' = [ref EXCEPT ![key] = {}]
  /\ ndel' = ndel + 1

\* for await (const pair of radix.loop(q)), to the end; a run ends with its
\* loop
Loop(q) ==
  /\ nops < MaxOps
  /\ LET r == Run(LoopCall(q), W)
     IN /\ store' = r.w.store
        /\ m_recycleIds' = r.w.pool
        /\ m_id' = r.w.idn
        /\ last' = Record("loop", <<>>, 0, q, r.p)
  /\ nops' = MaxOps
  /\ UNCHANGED <<aliasing, ref, ndel, calls, mutex, other>>

\* sets and dels, one after the other, on one instance
Next ==
  \/ \E key \in Keys, value \in Values : Set(key, value)
  \/ \E key \in Keys : Del(key)

Spec == Init /\ [][Next]_vars

\* sets only
NextSet == \E key \in Keys, value \in Values : Set(key, value)

SpecSet == Init /\ [][NextSet]_vars

\* the bound strings of the queries
Bounds == Strs(MaxBoundLen)

With(f, x) ==
  CASE f = "gt" -> [EmptyQuery EXCEPT !.gt = {x}]
    [] f = "gte" -> [EmptyQuery EXCEPT !.gte = {x}]
    [] f = "lt" -> [EmptyQuery EXCEPT !.lt = {x}]
    [] f = "lte" -> [EmptyQuery EXCEPT !.lte = {x}]
    [] f = "prefix" -> [EmptyQuery EXCEPT !.prefix = {x}]
    [] f = "prefixNot" -> [EmptyQuery EXCEPT !.prefixNot = {x}]

\* a count, a direction, or neither
CountQueries ==
  { [EmptyQuery EXCEPT !.count = c, !.sort = s] :
      c \in {{}, {0}, {1}, {2}}, s \in {{}, {1}, {-1}} }

\* one bound, ascending; a short bound, descending
OneQueries ==
  { With(f, x) :
      f \in {"gt", "gte", "lt", "lte", "prefix", "prefixNot"}, x \in Bounds }
    \cup { [With(f, x) EXCEPT !.sort = {-1}] :
             f \in {"gt", "gte", "lt", "lte", "prefix", "prefixNot"},
             x \in Strs(1) }

\* prefixSome with no, one or two strings
SomeQueries ==
  { [EmptyQuery EXCEPT !.prefixSome = {a}] :
      a \in {<<>>} \cup { <<x>> : x \in Bounds }
             \cup { <<x, y>> : x \in Bounds, y \in Strs(1) } }

\* a lower and an upper bound; gte, lte and prefix together
RangeQueries ==
  { [EmptyQuery EXCEPT !.gt = lo[1], !.gte = lo[2], !.lt = hi[1],
                       !.lte = hi[2]] :
      lo \in { <<{x}, {}>> : x \in Strs(1) }
               \cup { <<{}, {x}>> : x \in Strs(1) },
      hi \in { <<{x}, {}>> : x \in Strs(1) }
               \cup { <<{}, {x}>> : x \in Strs(1) } }
    \cup { [EmptyQuery EXCEPT !.gte = {x}, !.lte = {y}, !.prefix = {z}] :
             x \in Strs(1), y \in Strs(1), z \in Strs(1) }

\* a bound and a count
CutQueries ==
  { [With(f, x) EXCEPT !.count = {1}] :
      f \in {"gte", "lt", "prefix"}, x \in Strs(1) }

\* sort: 0, as the README's example passes it, alone and with the example's
\* count and prefix
ZeroQueries ==
  { [EmptyQuery EXCEPT !.sort = {0}, !.count = c, !.prefix = x] :
      c \in {{}, {2}}, x \in {{}, {<<97>>}} }

Queries ==
  CountQueries \cup OneQueries \cup SomeQueries \cup RangeQueries
    \cup CutQueries \cup ZeroQueries

\* sets, and then a loop
NextLoop ==
  \/ \E key \in Keys : Set(key, 1 + (Len(key) % NumVals))
  \/ \E q \in Queries : Loop(q)

SpecLoop == Init /\ [][NextLoop]_vars

\* ------------------------------------------------------------ concurrency
\* set were it to obtain the mutex shared
LockModeSetShared(op) == IF op = "del" THEN "RW" ELSE "RO"

\* loop were it to release outside a finally block
FinallyNotLoop(op) == op \in {"has", "get", "set", "del"}

\* set were it to release outside a finally block
FinallyNotSet(op) == op \in {"has", "get", "del", "loop"}

\* what each public operation obtains from the mutex before its first store
\* access: obtainRW for set and del, obtainRO for has, get and loop
LockMode(op) == IF op \in {"set", "del"} THEN "RW" ELSE "RO"

\* whether the operation's release() stands in a finally block
Finally(op) == op \in {"has", "get", "set", "del", "loop"}

\* the mutex were each instance to have one of its own
MutexPerStore(m, i) ==
  [ro |-> { c \in m.ro : calls[c].inst = i },
   rw |-> { c \in m.rw : calls[c].inst = i }]

\* the mutex an instance obtains: the one of the module, whichever the
\* instance and its store
MutexOf(m, i) == m

\* MutexRW: an exclusive holder excludes every other holder, shared holders
\* exclude only an exclusive one; which waiter goes first is left open
CanObtain(mode, m) ==
  IF mode = "RW" THEN m.ro = {} /\ m.rw = {} ELSE m.rw = {}

Obtained(mode, m, c) ==
  IF mode = "RW" THEN [m EXCEPT !.rw = m.rw \cup {c}]
  ELSE [m EXCEPT !.ro = m.ro \cup {c}]

\* release()
Released(m, c) == [ro |-> m.ro \ {c}, rw |-> m.rw \ {c}]

\* the keys and the queries of the concurrent calls
ConcKeys == Strs(2) \ {<<>>, <<98, 97>>, <<98, 98>>}
ConcQueries == {EmptyQuery, [EmptyQuery EXCEPT !.count = {1}]}

\* the sets (key, then value) the store of a concurrent run starts from
SeedRuns ==
  { <<>>,
    << <<<<97, 98>>, 1>> >>,
    << <<<<97, 97>>, 1>>, <<<<97, 98>>, 2>> >> }

RECURSIVE RunSets(_, _)
RunSets(w, sets) ==
  IF sets = <<>> THEN w
  ELSE RunSets(set(w, Head(sets)[1], Head(sets)[2]).w, Tail(sets))

\* one instance on a store it has filled, one set after the other, and no
\* call made yet
InitConc ==
  /\ NoCalls
  /\ NoOther
  /\ aliasing \in BOOLEAN
  /\ \E sets \in SeedRuns :
       LET w == RunSets(World(<<>>, <<>>, -1, aliasing), sets)
       IN /\ store = w.store
          /\ m_recycleIds = w.pool
          /\ m_id = w.idn
  /\ ref = [k \in Keys |-> {}]
  /\ last = [op |-> "new", key |-> <<>>, val |-> 0, q |-> EmptyQuery,
             retb |-> FALSE, retv |-> {}, out |-> <<>>, newid |-> "",
             pre |-> World(<<>>, <<>>, -1, aliasing)]
  /\ nops = 0
  /\ ndel = 0

\* what no step of a call changes
Still == UNCHANGED <<aliasing, ref, last, nops, ndel>>

Quiet == Still /\ UNCHANGED other

\* the call has returned, or it has thrown, or its generator was returned at
\* a yield: release() runs after a return, and in a finally block after a
\* throw and after a return of the generator as well
Ended(c, call) ==
  /\ calls' = [calls EXCEPT ![c] = [call EXCEPT !.pc = "end"]]
  /\ mutex' = IF (call.failed \/ call.stopped) /\ ~Finally(call.p.op)
              THEN mutex
              ELSE Released(mutex, c)

\* the call goes on holding the mutex, or ends when its code has returned
Settle(c, call) ==
  IF call.p.at = "done" THEN Ended(c, call)
  ELSE calls' = [calls EXCEPT ![c] = call] /\ UNCHANGED mutex

\* radix.get(key), has(key), set(key, value), del(key) or the first pull of
\* radix.loop(q): the call awaits the mutex
Start(c, op, key, val, q) ==
  /\ calls[c].pc = "idle"
  /\ LET p == IF op = "loop" THEN LoopCall(q) ELSE NewCall(op, key, val, q)
     IN calls' = [calls EXCEPT ![c] = [IdleCall EXCEPT
                                         !.pc = "wait", !.p = p, !.arg = key]]
  /\ UNCHANGED <<store, m_recycleIds, m_id, mutex>>
  /\ Quiet

\* await mutex.obtainRO() or obtainRW() resolves
Obtain(c) ==
  /\ calls[c].pc = "wait"
  /\ CanObtain(LockMode(calls[c].p.op), MutexOf(mutex, calls[c].inst))
  /\ LET call == [calls[c] EXCEPT
                    !.pc = "run",
                    !.sawFail = \E d \in Calls : calls[d].failed]
         m == Obtained(LockMode(call.p.op), mutex, c)
     IN IF call.p.at = "done"
        THEN /\ calls' = [calls EXCEPT ![c] = [call EXCEPT !.pc = "end"]]
             /\ mutex' = Released(m, c)
        ELSE calls' = [calls EXCEPT ![c] = call] /\ mutex' = m
  /\ UNCHANGED <<store, m_recycleIds, m_id>>
  /\ Quiet

Writing(c) ==
  calls[c].p.op \in {"set", "del"} /\ calls[c].pc = "run" /\ calls[c].started

\* the store access the call awaits, and the code after it
Access(c) ==
  /\ calls[c].pc = "run"
  /\ calls[c].p.at \notin {"done", "yield"}
  /\ LET r == Step(calls[c].p, W)
     IN /\ store' = r.w.store
        /\ m_recycleIds' = r.w.pool
        /\ m_id' = r.w.idn
        /\ Settle(c, [calls[c] EXCEPT
                        !.p = r.p, !.started = TRUE,
                        !.snap = IF calls[c].started THEN calls[c].snap
                                 ELSE store,
                        !.torn = IF calls[c].started THEN calls[c].torn
                                 ELSE \E d \in Calls \ {c} : Writing(d)])
  /\ Quiet

\* the consumer of a loop asks for the next pair
Pull(c) ==
  /\ calls[c].pc = "run"
  /\ calls[c].p.at = "yield"
  /\ Settle(c, [calls[c] EXCEPT !.p = LoopResume(calls[c].p)])
  /\ UNCHANGED <<store, m_recycleIds, m_id>>
  /\ Quiet

\* the consumer of a loop leaves its for await: the generator returns from
\* the yield it is suspended at, through its finally block
Break(c) ==
  /\ calls[c].pc = "run"
  /\ calls[c].p.at = "yield"
  /\ Ended(c, [calls[c] EXCEPT !.stopped = TRUE])
  /\ UNCHANGED <<store, m_recycleIds, m_id>>
  /\ Quiet

\* the store access the call awaits throws: the call throws
Throw(c) ==
  /\ calls[c].pc = "run"
  /\ calls[c].p.at \notin {"done", "yield"}
  /\ Ended(c, [calls[c] EXCEPT !.failed = TRUE])
  /\ UNCHANGED <<store, m_recycleIds, m_id>>
  /\ Quiet

StartAny(c, keys) ==
  \/ \E key \in keys : Start(c, "get", key, "", EmptyQuery)
  \/ \E key \in keys : Start(c, "has", key, "", EmptyQuery)
  \/ \E key \in keys : Start(c, "set", key, jsonEncode(NumVals), EmptyQuery)
  \/ \E key \in keys : Start(c, "del", key, "", EmptyQuery)
  \/ \E q \in ConcQueries : Start(c, "loop", <<>>, "", q)

\* calls made at any time, their steps interleaved, no store access failing
NextConc ==
  \E c \in Calls :
    StartAny(c, ConcKeys) \/ Obtain(c) \/ Access(c) \/ Pull(c) \/ Break(c)

SpecConc == InitConc /\ [][NextConc]_vars

\* the keys of the calls of a run in which store accesses throw
FailKeys == {<<97>>, <<97, 98>>}

\* calls made at any time, their steps interleaved, any store access throwing
NextFail ==
  \E c \in Calls :
    \/ StartAny(c, FailKeys)
    \/ Obtain(c) \/ Access(c) \/ Pull(c) \/ Break(c) \/ Throw(c)

SpecFail == InitConc /\ [][NextFail]_vars

\* the key of the calls of a run whose store accesses all resolve
StopKeys == {<<97, 97>>}

\* the calls of such a run
StopCalls == 1..(NumCalls - 1)

NextStop ==
  \E c \in StopCalls :
    StartAny(c, StopKeys) \/ Obtain(c) \/ Access(c) \/ Pull(c) \/ Break(c)

\* calls made at any time; the mutex lets a call in that can obtain it for
\* good, every store access resolves, and the consumer of a loop pulls the
\* next pair or returns the generator
SpecStop ==
  /\ InitConc
  /\ [][NextStop]_vars
  /\ \A c \in StopCalls :
       /\ WF_vars(Obtain(c))
       /\ WF_vars(Access(c))
       /\ WF_vars(Pull(c) \/ Break(c))

\* the keys of the sets and dels made in the body of a for await over a loop
AwaitKeys == {<<97, 97>>}

\* the loop is suspended at a yield: its consumer runs the body of its for
\* await
InBody(l) ==
  calls[l].p.op = "loop" /\ calls[l].pc = "run" /\ calls[l].p.at = "yield"

\* In the body of the for await over loop l the consumer calls set or del,
\* and either awaits the call there or lets it run on its own.
CallInBody(l, d, op, key, awaited) ==
  /\ InBody(l)
  /\ calls[d].pc = "idle"
  /\ LET p == NewCall(op, key, IF op = "set" THEN jsonEncode(NumVals) ELSE "",
                      EmptyQuery)
     IN calls' = [calls EXCEPT ![d] = [IdleCall EXCEPT
                                         !.pc = "wait", !.p = p, !.arg = key,
                                         !.from = l, !.awaited = awaited]]
  /\ UNCHANGED <<store, m_recycleIds, m_id, mutex>>
  /\ Quiet

\* the body of the for await over loop l awaits no call that has not ended
BodyDone(l) ==
  \A d \in Calls :
    (calls[d].from = l /\ calls[d].awaited) => calls[d].pc = "end"

\* the body of the for await has run to its end and the next pair is asked
\* for
PullNext(l) == BodyDone(l) /\ Pull(l)

\* the body of the for await has run to a break
BreakOut(l) == BodyDone(l) /\ Break(l)

\* loops, and sets and dels made in the bodies of their for awaits
NextAwait ==
  \E c \in Calls :
    \/ \E q \in ConcQueries : Start(c, "loop", <<>>, "", q)
    \/ \E d \in Calls, op \in {"set", "del"}, key \in AwaitKeys,
          awaited \in BOOLEAN : CallInBody(c, d, op, key, awaited)
    \/ Obtain(c) \/ Access(c) \/ PullNext(c) \/ BreakOut(c)

\* the mutex lets a call in that can obtain it for good, every store access
\* resolves, and a for await whose body is done pulls or breaks
SpecAwait ==
  /\ InitConc
  /\ [][NextAwait]_vars
  /\ \A c \in Calls :
       /\ WF_vars(Obtain(c))
       /\ WF_vars(Access(c))
       /\ WF_vars(PullNext(c) \/ BreakOut(c))

\* the key of the calls on two instances, each on a store of its own
TwoKeys == {<<97, 97>>}

\* the instance and the store of the other instance, as the code of a call
\* on it sees them
WOther == World(other.store, other.pool, other.idn, aliasing)

\* a public method is called on instance i: the call awaits the mutex
StartOn(c, i, op, key, val, q) ==
  /\ calls[c].pc = "idle"
  /\ LET p == IF op = "loop" THEN LoopCall(q) ELSE NewCall(op, key, val, q)
     IN calls' = [calls EXCEPT ![c] = [IdleCall EXCEPT
                                         !.pc = "wait", !.p = p, !.arg = key,
                                         !.inst = i]]
  /\ UNCHANGED <<store, m_recycleIds, m_id, mutex>>
  /\ Quiet

StartAnyOn(c, i, keys) ==
  \/ \E key \in keys : StartOn(c, i, "get", key, "", EmptyQuery)
  \/ \E key \in keys : StartOn(c, i, "has", key, "", EmptyQuery)
  \/ \E key \in keys :
       StartOn(c, i, "set", key, jsonEncode(NumVals), EmptyQuery)
  \/ \E key \in keys : StartOn(c, i, "del", key, "", EmptyQuery)
  \/ \E q \in ConcQueries : StartOn(c, i, "loop", <<>>, "", q)

\* the store access a call on the first instance awaits
AccessOwn(c) == calls[c].inst = 1 /\ Access(c)

\* the store access a call on the other instance awaits, on the other store,
\* and the code after it
AccessOther(c) ==
  /\ calls[c].inst = 2
  /\ calls[c].pc = "run"
  /\ calls[c].p.at \notin {"done", "yield"}
  /\ LET r == Step(calls[c].p, WOther)
     IN /\ other' = [store |-> r.w.store, pool |-> r.w.pool,
                      idn |-> r.w.idn]
        /\ Settle(c, [calls[c] EXCEPT
                        !.p = r.p, !.started = TRUE,
                        !.snap = IF calls[c].started THEN calls[c].snap
                                 ELSE other.store,
                        !.torn = IF calls[c].started THEN calls[c].torn
                                 ELSE \E d \in Calls \ {c} : Writing(d)])
  /\ UNCHANGED <<store, m_recycleIds, m_id>>
  /\ Still

\* calls made at any time on two instances, each on a store of its own
NextTwo ==
  \E c \in Calls :
    \/ \E i \in {1, 2} : StartAnyOn(c, i, TwoKeys)
    \/ Obtain(c) \/ AccessOwn(c) \/ AccessOther(c) \/ Pull(c) \/ Break(c)

SpecTwo == InitConc /\ [][NextTwo]_vars

\* the code units of the single quote, the backslash, 'a' and 'n', and the
\* bound strings over them
EscChars == {39, 92, 97, 110}
EscBounds == UNION {[1..k -> EscChars] : k \in 0..MaxEscLen}

\* the fields of a Query that hold bound strings
BoundFields ==
  {"gt", "gte", "lt", "lte", "prefix", "prefixNot", "prefixSome"}

\* the Query with the bound x in field f
BoundQuery(f, x) ==
  IF f = "prefixSome" THEN [EmptyQuery EXCEPT !.prefixSome = {<<x>>}]
  ELSE With(f, x)

\* buildQueryFilter(query) for a query with one bound: last keeps the bound
\* (key), the query, whether the literal escape wrote for the bound ends
\* where its text ends (retb; when not, the source handed to Function is
\* read on as code behind the literal's end, or has no end of the literal at
\* all) and the string the literal denotes (retv)
BuildFilter(f, x) ==
  /\ LET lit == LitEval(EscapeSrc(x))
     IN last' = [op |-> "filter", key |-> x, val |-> 0,
                 q |-> BoundQuery(f, x), retb |-> lit.ok,
                 retv |-> {lit.val}, out |-> <<>>, newid |-> "", pre |-> W]
  /\ UNCHANGED <<store, m_recycleIds, m_id, aliasing, ref, nops, ndel, calls,
                 mutex, other>>

\* filters built for queries of one bound
NextEscape == \E f \in BoundFields, x \in EscBounds : BuildFilter(f, x)

SpecEscape == Init /\ [][NextEscape]_vars

\* the keys of the sets and dels of a run across restarts of the process
RestartKeys == {<<97, 97, 98>>, <<97, 98, 97>>}

\* The process ends and a new one constructs an instance on the same store:
\* the module's nextIds map and mutex are new, so the counter cache is not
\* hydrated and the recycle pool is empty; the calls of the old process,
\* wherever they stood, make no further step (pc "lost").
Restart ==
  /\ calls' = [c \in Calls |->
                 IF calls[c].pc \in {"wait", "run"}
                 THEN [calls[c] EXCEPT !.pc = "lost"]
                 ELSE calls[c]]
  /\ mutex' = [ro |-> {}, rw |-> {}]
  /\ m_recycleIds' = <<>>
  /\ m_id' = -1
  /\ UNCHANGED store
  /\ Quiet

\* sets and dels made at any time, any store access throwing, the process
\* restarting at any point
NextRestart ==
  \/ \E c \in Calls :
       \/ \E key \in RestartKeys :
            Start(c, "set", key, jsonEncode(NumVals), EmptyQuery)
       \/ \E key \in RestartKeys : Start(c, "del", key, "", EmptyQuery)
       \/ Obtain(c) \/ Access(c) \/ Throw(c)
  \/ Restart

SpecRestart == InitConc /\ [][NextRestart]_vars

\* ----------------------------------------------------------------- claims
Present(w, k) == get(w, k) # {}

\* C1: after sets only, on a store that started empty, get(k) is the value
\* of the latest set(k, .) and has(k) is true for every key that was set,
\* and get(k) is undefined and has(k) false for every key that was not.
C1_RoundTrip ==
  \A k \in Keys : get(W, k) = ref[k] /\ has(W, k) = (ref[k] # {})

\* the empty key, a key and a longer key starting with it are set, and the
\* last set gave a key that was present another value
C1_Witness ==
  /\ last.op = "set"
  /\ ref[<<>>] # {} /\ ref[<<97>>] # {} /\ ref[<<97, 97>>] # {}
  /\ Present(last.pre, last.key)
  /\ get(last.pre, last.key) # {last.val}

\* C2: a del of a present key, the first del after sets only, leaves every
\* other present key with the value it had.
C2_DelKeepsOthers ==
  (last.op = "del" /\ ndel = 1 /\ Present(last.pre, last.key))
    => \A k \in Keys \ {last.key} :
         Present(last.pre, k) => get(W, k) = get(last.pre, k)

\* C3: a del of a present key returns true, and the key is gone afterwards,
\* whether or not the store hands out its own objects.
C3_DelRemoves ==
  (last.op = "del" /\ Present(last.pre, last.key))
    => last.retb /\ get(W, last.key) = {} /\ ~has(W, last.key)

\* C4: a del of a key that is not present returns false and changes neither
\* the store nor the recycle pool.
C4_DelAbsent ==
  (last.op = "del" /\ ~Present(last.pre, last.key))
    => ~last.retb /\ store = last.pre.store
         /\ m_recycleIds = last.pre.pool

\* C9: a set of a present key makes get return the new value, draws no id
\* (pool, counter cache and '#' unchanged), creates no record, and rewrites
\* at most one record.
C9_Overwrite ==
  (last.op = "set" /\ Present(last.pre, last.key))
    => /\ get(W, last.key) = {last.val}
       /\ DOMAIN store = DOMAIN last.pre.store
       /\ m_recycleIds = last.pre.pool
       /\ m_id = last.pre.idn
       /\ Cardinality({x \in DOMAIN store :
                         store[x] # last.pre.store[x]}) <= 1

\* the keys of the pairs a loop yielded, in order
OutKeys(out) == [j \in 1..Len(out) |-> out[j][1]]

\* C6: a loop with count N yields the first N pairs of what the same query
\* yields without a count, and so at most N pairs.
C6_CountBound ==
  (last.op = "loop" /\ last.q.count # {})
    => LET n == CHOOSE c \in last.q.count : TRUE
           full == loop(last.pre, [last.q EXCEPT !.count = {}])
       IN Len(last.out) <= n /\ last.out = Take(full, n)

\* the comparisons of a query on a whole key
ExactMatch(q, k) ==
  /\ \A x \in q.gt : StrLt(x, k)
  /\ \A x \in q.gte : StrLe(x, k)
  /\ \A x \in q.lt : StrLt(k, x)
  /\ \A x \in q.lte : StrLe(k, x)
  /\ \A x \in q.prefix : IsPrefix(x, k)
  /\ \A x \in q.prefixNot : ~IsPrefix(x, k)
  /\ \A a \in q.prefixSome : \E j \in 1..Len(a) : IsPrefix(a[j], k)

\* C8: after sets only, a loop without count yields exactly the present
\* keys that satisfy every comparison of its query, each once, with its
\* value.
C8_FilterExact ==
  (last.op = "loop" /\ last.q.count = {})
    => LET hit == { k \in Keys : ref[k] # {} /\ ExactMatch(last.q, k) }
       IN /\ { last.out[j][1] : j \in 1..Len(last.out) } = hit
          /\ Len(last.out) = Cardinality(hit)
          /\ \A j \in 1..Len(last.out) :
               ref[last.out[j][1]] = {last.out[j][2]}

\* C8: a query with gte 'ab' is run on a tree whose branch 'a' holds the
\* matching 'ab' beside the non-matching 'aa', and yields two keys
C8_Witness ==
  /\ last.op = "loop"
  /\ last.q.gte = {<<97, 98>>}
  /\ last.q.count = {}
  /\ Len(last.out) = 2
  /\ ref[<<97, 97>>] # {}
  /\ ref[<<97, 98>>] # {}

\* C9: a leaf of a node other than the root got a new value
C9_Witness ==
  /\ last.op = "set"
  /\ Present(last.pre, last.key)
  /\ get(last.pre, last.key) # {last.val}
  /\ "0" \in DOMAIN last.pre.store
  /\ store[NODE_ROOT] = last.pre.store[NODE_ROOT]
  /\ store # last.pre.store

StrictlyAscending(ks) ==
  \A j \in 1..(Len(ks) - 1) : StrLt(ks[j], ks[j + 1])

StrictlyDescending(ks) ==
  \A j \in 1..(Len(ks) - 1) : StrLt(ks[j + 1], ks[j])

NoFilter(q) ==
  [q EXCEPT !.sort = {}, !.count = {}] = EmptyQuery /\ q.count = {}

\* C7: after sets only, a loop with no query (or sort 1) yields every present
\* key once, in strictly ascending order of the keys, and a loop with sort -1
\* yields every present key once, in strictly descending order.
C7_Ordered ==
  (last.op = "loop" /\ NoFilter(last.q))
    => LET ks == OutKeys(last.out)
       IN /\ { ks[j] : j \in 1..Len(ks) } = { k \in Keys : ref[k] # {} }
          /\ IF last.q.sort = {-1} THEN StrictlyDescending(ks)
             ELSE StrictlyAscending(ks)

\* C7: a loop with sort -1 over the empty key, 'a' and a third key that 'a'
\* is a prefix of
C7_Witness ==
  /\ last.op = "loop"
  /\ NoFilter(last.q)
  /\ last.q.sort = {-1}
  /\ Len(last.out) = 3
  /\ last.out[3][1] = <<>>
  /\ last.out[2][1] = <<97>>
  /\ IsPrefix(<<97>>, last.out[1][1])

Reader(c) == calls[c].p.op \in {"get", "has", "loop"}

\* what the call returns when it runs alone on the records it first read
Alone(c) ==
  LET w == World(calls[c].snap, <<>>, -1, aliasing)
      p == calls[c].p
  IN CASE p.op = "get" -> p.retv = get(w, calls[c].arg)
       [] p.op = "has" -> p.retb = has(w, calls[c].arg)
       [] p.op = "loop" ->
            IF calls[c].stopped
            THEN p.out = Take(loop(w, p.q), Len(p.out))
            ELSE p.out = loop(w, p.q)

\* C5: while a set or a del is between its obtaining the mutex and its
\* return, no other call is between its first store access and its return;
\* no call makes its first store access between two store accesses of a set
\* or del; and what a get, a has or a loop returns is what it returns run
\* alone on the records it first read.
C5_Atomic ==
  /\ \A c \in Calls : \A d \in Calls \ {c} :
       (calls[c].pc = "run" /\ calls[c].p.op \in {"set", "del"})
         => ~(calls[d].pc = "run" /\ calls[d].started)
  /\ \A c \in Calls : ~calls[c].torn
  /\ \A c \in Calls :
       (Reader(c) /\ calls[c].pc = "end" /\ calls[c].started) => Alone(c)

\* C5: a loop is between two of its pairs and a get has returned a value
\* while a set awaits the mutex
C5_Witness ==
  \E c \in Calls : \E d \in Calls : \E e \in Calls :
    /\ calls[c].p.op = "loop" /\ calls[c].pc = "run"
    /\ Len(calls[c].p.out) = 1
    /\ calls[d].p.op = "set" /\ calls[d].pc = "wait"
    /\ calls[e].p.op = "get" /\ calls[e].pc = "end" /\ calls[e].p.retv # {}

Holders == mutex.ro \cup mutex.rw

\* C10: only calls that have obtained the mutex and not yet returned or
\* thrown hold it, so once no call is running every call that awaits the
\* mutex can obtain it; that holds whichever store accesses throw.
C10_Released ==
  /\ Holders \subseteq { c \in Calls : calls[c].pc = "run" }
  /\ (\A c \in Calls : calls[c].pc # "run")
       => \A d \in Calls :
            calls[d].pc = "wait" => CanObtain(LockMode(calls[d].p.op), mutex)

\* C10: a set threw at a store access after its first, and a call that
\* obtained the mutex after that has made its store accesses and returned
C10_Witness ==
  \E c \in Calls : \E d \in Calls :
    /\ calls[d].failed /\ calls[d].p.op = "set" /\ calls[d].started
    /\ calls[c].sawFail /\ ~calls[c].failed
    /\ calls[c].pc = "end" /\ calls[c].started

RootLeafAt(w, key) ==
  IF NODE_ROOT \in DOMAIN w.store
  THEN { i \in 1..Len(w.store[NODE_ROOT]) :
           w.store[NODE_ROOT][i] = Leaf(key, w.store[NODE_ROOT][i].s) }
  ELSE {}

\* C13: a del, the first after sets only, of a key whose leaf edge is in the
\* root leaves the root's record in the store with the other edges of the
\* root, as they were, and does not put '_' into the recycle pool.
C13_RootKept ==
  (last.op = "del" /\ ndel = 1 /\ RootLeafAt(last.pre, last.key) # {})
    => /\ NODE_ROOT \in DOMAIN store
       /\ \A i \in RootLeafAt(last.pre, last.key) :
            store[NODE_ROOT] = RemoveAt(last.pre.store[NODE_ROOT], i)
       /\ \A j \in 1..Len(m_recycleIds) : m_recycleIds[j] # NODE_ROOT

\* the places of the root's edges that lead to a node of two edges, one of
\* them the leaf edge of the key, in the records of w
RootChildLeafAt(w, key) ==
  IF NODE_ROOT \in DOMAIN w.store
  THEN { i \in 1..Len(w.store[NODE_ROOT]) :
           LET e == w.store[NODE_ROOT][i]
           IN /\ ~e.leaf
              /\ e.s \in DOMAIN w.store
              /\ Len(w.store[e.s]) = 2
              /\ IsPrefix(e.l, key)
              /\ \E j \in 1..2 :
                   w.store[e.s][j] =
                     Leaf(Drop(key, Len(e.l)), w.store[e.s][j].s) }
  ELSE {}

\* the edge of the root at i merged with the edge its node keeps once the
\* leaf edge of the key is gone
MergedEdge(w, key, i) ==
  LET e == w.store[NODE_ROOT][i]
      child == w.store[e.s]
      j == CHOOSE j \in 1..2 : child[j] = Leaf(Drop(key, Len(e.l)), child[j].s)
      kept == child[3 - j]
  IN [kept EXCEPT !.l = e.l \o kept.l]

\* C14: a del, the first after sets only, that leaves a node under the root
\* with one edge writes the root as it was but for the edge to that node,
\* which becomes the merged edge.
C14_MergeIntoRoot ==
  (last.op = "del" /\ ndel = 1)
    => \A i \in RootChildLeafAt(last.pre, last.key) :
         /\ NODE_ROOT \in DOMAIN store
         /\ store[NODE_ROOT] =
              [last.pre.store[NODE_ROOT] EXCEPT
                 ![i] = MergedEdge(last.pre, last.key, i)]

\* the keys of the node records of the store
NodeKeys == DOMAIN store \ {COUNTER}

\* the ids the branch edges of the record under x name, place by place
BranchesOf(x) ==
  { <<x, i>> : i \in { j \in 1..Len(store[x]) : ~store[x][j].leaf } }

RECURSIVE ReachFrom(_)
\* the node records reached from those of S over branch edges
ReachFrom(S) ==
  LET T == S \cup { store[b[1]][b[2]].s :
                      b \in UNION { BranchesOf(x) : x \in S } }
      U == T \cap NodeKeys
  IN IF U = S THEN S ELSE ReachFrom(U)

Reachable == ReachFrom({NODE_ROOT} \cap NodeKeys)

\* C15: between operations every branch edge of a stored node names a stored
\* node, and every stored node but the root is named by exactly one branch
\* edge of a node reached from the root.
C15_Tree ==
  /\ \A x \in NodeKeys : \A b \in BranchesOf(x) :
       store[b[1]][b[2]].s \in NodeKeys \ {NODE_ROOT}
  /\ \A y \in NodeKeys \ {NODE_ROOT} :
       Cardinality({ b \in UNION { BranchesOf(x) : x \in Reachable } :
                       store[b[1]][b[2]].s = y }) = 1

\* the ids the allocator has drawn from the counter of the store
Drawn(w) ==
  IF COUNTER \in DOMAIN w.store
  THEN { ToString36(n) : n \in 0..(w.store[COUNTER] - 1) }
  ELSE {}

\* C16: the id a set draws for a split is a base-36 ordinal drawn from the
\* counter, neither '_' nor '#', and not the key of a record of the store;
\* the recycle pool holds only such ids, of records no longer in the store.
C16_AllocatorIds ==
  /\ (last.op = "set" /\ last.newid # "")
       => /\ last.newid \in Drawn(W)
          /\ last.newid \notin {NODE_ROOT, COUNTER}
          /\ last.newid \notin DOMAIN last.pre.store
  /\ \A j \in 1..Len(m_recycleIds) :
       /\ m_recycleIds[j] \in Drawn(W)
       /\ m_recycleIds[j] \notin {NODE_ROOT, COUNTER}
       /\ m_recycleIds[j] \notin DOMAIN store

\* C17: as long as no del has made a store access, in every state of the
\* store between the store accesses of sets, and after a store access of a
\* set has thrown, every branch edge of a node reached from the root names a
\* stored record.
C17_SplitNeverDangles ==
  (\A c \in Calls : calls[c].p.op = "del" => ~calls[c].started)
    => \A x \in Reachable : \A b \in BranchesOf(x) :
         store[b[1]][b[2]].s \in NodeKeys

\* the edges of the stored node records, place by place
EdgesOf(x) == { <<x, i>> : i \in 1..Len(store[x]) }

\* C18: every edge of every stored node record has a label that is not
\* empty.
C18_LabelsNonEmpty ==
  \A x \in NodeKeys : \A b \in EdgesOf(x) : store[b[1]][b[2]].l # <<>>

\* C18, as the code has it: the label of every branch edge is not empty, and
\* a node record has at most one edge with the empty label, a leaf edge: the
\* leaf of the key that ends at that node.
C18_EmptyLabelIsOneLeaf ==
  \A x \in NodeKeys :
    /\ \A b \in BranchesOf(x) : store[b[1]][b[2]].l # <<>>
    /\ Cardinality({ b \in EdgesOf(x) : store[b[1]][b[2]].l = <<>> }) <= 1

\* C18: the empty key and 'a' are set beside 'ab': the root and the node
\* under 'a' each hold a leaf edge with the empty label
C18_Witness ==
  /\ NODE_ROOT \in NodeKeys /\ "0" \in NodeKeys
  /\ \E b \in EdgesOf(NODE_ROOT) : store[b[1]][b[2]] = Leaf(<<>>, "1")
  /\ \E b \in EdgesOf("0") : store[b[1]][b[2]].l = <<>>
  /\ \E b \in BranchesOf(NODE_ROOT) : store[b[1]][b[2]].s = "0"
  /\ ref[<<>>] # {} /\ ref[<<97>>] # {} /\ ref[<<97, 98>>] # {}

RECURSIVE Visits(_, _, _)
\* whether the call, run alone from p on w, awaits a store access of S
Visits(p, w, S) ==
  IF p.at \in S THEN TRUE
  ELSE IF p.at = "done" THEN FALSE
  ELSE LET r == Step(p, w) IN Visits(r.p, r.w, S)

LastDel == NewCall("del", last.key, "", EmptyQuery)

\* C19: between operations every stored node record but the root's has at
\* least two edges, and no del has found a node other than the root with no
\* edge left.
C19_TwoEdges ==
  /\ \A x \in NodeKeys \ {NODE_ROOT} : Len(store[x]) >= 2
  /\ last.op = "del" => ~Visits(LastDel, last.pre, {"c0del"})

\* C19: a del has left node '0' with one edge, so that it was merged into
\* the root, beside a node '1' that keeps its two edges
C19_Witness ==
  /\ last.op = "del"
  /\ Visits(LastDel, last.pre, {"c1set"})
  /\ "0" \in DOMAIN last.pre.store
  /\ "0" \notin NodeKeys
  /\ "1" \in NodeKeys
  /\ Len(store["1"]) = 2

\* C20: between operations the edges of every stored node record are in
\* strictly ascending order of their labels, and no two of them have labels
\* with the same first code unit, or both the empty label.
C20_SortedDistinct ==
  \A x \in NodeKeys :
    /\ \A i \in 1..(Len(store[x]) - 1) :
         StrLt(store[x][i].l, store[x][i + 1].l)
    /\ \A i \in 1..Len(store[x]) : \A j \in 1..Len(store[x]) :
         i # j => ~FirstCharEq(store[x][i].l, store[x][j].l)

\* a del has just replaced, in a node other than the root that keeps two edges
\* or more, the edge to a collapsed node by the merged edge, whose label is
\* longer
C20_Witness ==
  /\ last.op = "del"
  /\ Visits(LastDel, last.pre, {"c1set"})
  /\ \E x \in NodeKeys \ {NODE_ROOT} :
       /\ x \in DOMAIN last.pre.store
       /\ Len(store[x]) >= 2
       /\ Len(store[x]) = Len(last.pre.store[x])
       /\ \E i \in 1..Len(store[x]) :
            Len(store[x][i].l) > Len(last.pre.store[x][i].l)

\* the persisted counter: the next ordinal, 0 while the store has no '#'
Counter == IF COUNTER \in DOMAIN store THEN store[COUNTER] ELSE 0

\* the ids that are keys of node records or named by branch edges of them
IdsInStore ==
  NodeKeys \cup { store[b[1]][b[2]].s :
                    b \in UNION { BranchesOf(x) : x \in NodeKeys } }

\* the ordinals the ids of a run may have
Ordinals == 0..(2 * NumCalls)

\* C21: the persisted counter never decreases; in every state of the store,
\* those between the store accesses of a set included, it is greater than
\* the ordinal of every base-36 id that is the key of a record or named by a
\* branch edge; and the id a set has just drawn from the counter, also after
\* a restart of the process at any point, is neither.
C21_CounterAhead ==
  /\ [](/\ \A n \in Ordinals : ToString36(n) \in IdsInStore => Counter > n
        /\ \A c \in Calls :
             (calls[c].pc = "run" /\ calls[c].p.at = "idset")
               => calls[c].p.newid \notin IdsInStore)
  /\ [][Counter' >= Counter]_vars

\* C21: the process restarted while a set stood between the write of the
\* parent and the write of the new node, and a set of the new process has
\* drawn an id from the counter it read from the store
C21_Witness ==
  \E c \in Calls : \E d \in Calls :
    /\ calls[c].pc = "lost" /\ calls[c].p.op = "set"
    /\ calls[c].p.at = "wnew"
    /\ calls[c].p.newid \in IdsInStore
    /\ calls[d].pc = "run" /\ calls[d].p.op = "set"
    /\ calls[d].p.at = "wparent"
    /\ calls[d].p.newid # calls[c].p.newid
    /\ Counter >= 2

\* the call is a loop / a set or del
IsLoop(c) == calls[c].p.op = "loop"
IsWrite(c) == calls[c].p.op \in {"set", "del"}

\* C22: a loop that has obtained the mutex and has not ended holds it shared,
\* also while it is suspended at a yield; a set or del made in the body of
\* its for await has made no store access unless the loop has ended; and when
\* that body awaits the set or del, the set or del awaits the mutex and the
\* loop is suspended at the yield for ever after.
C22_LoopHoldsLock ==
  /\ \A l \in Calls :
       (IsLoop(l) /\ calls[l].pc = "run") => l \in mutex.ro
  /\ \A d \in Calls :
       (IsWrite(d) /\ calls[d].from # 0)
         => /\ calls[d].started => calls[calls[d].from].pc = "end"
            /\ calls[d].awaited
                 => /\ calls[d].pc = "wait"
                    /\ ~calls[d].started
                    /\ InBody(calls[d].from)
                    /\ calls[d].from \in mutex.ro

\* C22: the body of a for await over a loop, one pair yielded, awaits a set
\* it has made, and a del made in that body and not awaited is waiting too
C22_Witness ==
  \E l \in Calls : \E d \in Calls : \E e \in Calls :
    /\ InBody(l) /\ Len(calls[l].p.out) = 1
    /\ calls[d].p.op = "set" /\ calls[d].from = l /\ calls[d].awaited
    /\ calls[d].pc = "wait"
    /\ calls[e].p.op = "del" /\ calls[e].from = l /\ ~calls[e].awaited
    /\ calls[e].pc = "wait"

\* C22: a set made in the body of a for await and not awaited there has
\* returned after the loop ended
C22_WitnessAfter ==
  \E l \in Calls : \E d \in Calls :
    /\ IsLoop(l) /\ calls[l].pc = "end"
    /\ calls[d].p.op = "set" /\ calls[d].from = l /\ ~calls[d].awaited
    /\ calls[d].pc = "end" /\ calls[d].started

\* C23: while a set or del on one instance is between its obtaining the
\* mutex and its return, no call on the other instance, on another store, is
\* between its first store access and its return, and none makes its first
\* store access then; and while a loop on one instance has not ended, a set
\* on the other instance has obtained no mutex and cannot.
C23_OneLock ==
  /\ \A c \in Calls : \A d \in Calls \ {c} :
       (calls[c].inst # calls[d].inst /\ IsWrite(c) /\ calls[c].pc = "run")
         => ~(calls[d].pc = "run" /\ calls[d].started)
  /\ \A c \in Calls : ~calls[c].torn
  /\ \A l \in Calls : \A d \in Calls \ {l} :
       (calls[l].inst # calls[d].inst /\ IsLoop(l) /\ calls[l].pc = "run"
          /\ calls[d].p.op = "set" /\ calls[d].pc # "idle")
         => /\ calls[d].pc \in {"wait", "end"}
            /\ calls[d].pc = "wait"
                 => ~CanObtain("RW", MutexOf(mutex, calls[d].inst))

\* C23: a loop on the other instance is suspended after its first pair, of a
\* set made on that instance, and a set on the first instance awaits the
\* mutex
C23_Witness ==
  \E l \in Calls : \E d \in Calls : \E e \in Calls :
    /\ calls[e].inst = 2 /\ calls[e].p.op = "set" /\ calls[e].pc = "end"
    /\ calls[l].inst = 2 /\ InBody(l) /\ Len(calls[l].p.out) = 1
    /\ calls[d].inst = 1 /\ calls[d].p.op = "set" /\ calls[d].pc = "wait"
    /\ store # <<>>

\* C24: for every bound string of a query over an alphabet with the single
\* quote and the backslash, the literal escape writes into the filter source
\* ends where its text ends and denotes the bound itself.
C24_LiteralDenotesBound ==
  last.op = "filter" => last.retb /\ last.retv = {last.key}

====
